---- MODULE Spec2Model ----
(***************************************************************************)
(* A model of the dingtalk alert server: the HTTP handler ReceiveAndSend   *)
(* and the formatter/dispatcher SendToDingtalk of server/server.go, served *)
(* by net/http with one goroutine per request (main.go).                   *)
(*                                                                         *)
(* Text is a sequence of lines, a line a tuple of string pieces: the       *)
(* literal pieces of a Sprintf format and the values of its arguments.     *)
(* The Chinese literals of the source are written as ASCII glosses.        *)
(***************************************************************************)
EXTENDS Naturals, Sequences, FiniteSets, TLC

(* ------------------------------ bounds --------------------------------- *)

\* Number of requests the server handles concurrently.
NumReq == 2
\* Most label keys (besides alert_type) over commonLabels and groupLabels.
MaxLabels == 3
\* Most alerts in a message.
MaxAlerts == 2

Reqs == 1..NumReq

(* ------------------------------ maps ----------------------------------- *)

\* A Go map[string]string is a function on a finite set of strings; the nil
\* map of a zero-valued struct reads as the empty map.
EmptyMap == [k \in {} |-> ""]

\* _, ok := m[k]
Has(m, k) == k \in DOMAIN m

\* m[k]: the zero value "" when the key is absent.
Get(m, k) == IF k \in DOMAIN m THEN m[k] ELSE ""

(* ------------------------------ messages ------------------------------- *)

AlertTypes ==
  {"event", "systemService", "nodeHealthy", "nodeCPU", "nodeMemory",
   "podNotScheduled", "podNotRunning", "podRestarts", "workload", "metric"}

\* The keys SendToDingtalk reads from commonLabels, besides alert_type.
CommonKeys ==
  {"group_id", "event_type", "cpu_threshold", "mem_threshold", "restart_times",
   "restart_interval", "available_percentage", "alert_name"}

\* The keys SendToDingtalk reads from groupLabels.
GroupKeys ==
  {"resource_kind", "component_name", "event_type", "node_name", "pod_name",
   "namespace", "workload_name", "workload_namespace"}

\* Sample values, one per key, all different.
CommonVal(k) ==
  CASE k = "group_id" -> "c-x7k2p:alert-group"
    [] k = "event_type" -> "Warning"
    [] k = "cpu_threshold" -> "80"
    [] k = "mem_threshold" -> "70"
    [] k = "restart_times" -> "3"
    [] k = "restart_interval" -> "300"
    [] k = "available_percentage" -> "50"
    [] k = "alert_name" -> "cpu_spike"

GroupVal(k) ==
  CASE k = "resource_kind" -> "Deployment"
    [] k = "component_name" -> "etcd"
    [] k = "event_type" -> "Killing"
    [] k = "node_name" -> "node-1"
    [] k = "pod_name" -> "web-0"
    [] k = "namespace" -> "prod"
    [] k = "workload_name" -> "api"
    [] k = "workload_namespace" -> "shop"

\* commonLabels with the keys ks and, unless ty is "", alert_type = ty.
CommonMap(ty, ks) ==
  [k \in ks \cup (IF ty = "" THEN {} ELSE {"alert_type"}) |->
     IF k = "alert_type" THEN ty ELSE CommonVal(k)]

GroupMap(ks) == [k \in ks |-> GroupVal(k)]

\* type Alert: the fields SendToDingtalk reads.  startsAt is an instant.
Times == {0, 1}

AlertLabelMaps ==
  {EmptyMap, [k \in {"severity", "alertname"} |->
                IF k = "severity" THEN "critical" ELSE "HighCPU"]}

Alerts ==
  [status : {"firing", "resolved", ""}, labels : AlertLabelMaps, startsAt : Times]

RECURSIVE SeqsUpTo(_, _)
SeqsUpTo(S, n) ==
  IF n = 0 THEN {<<>>}
  ELSE LET shorter == SeqsUpTo(S, n - 1)
       IN  shorter \cup {Append(s, x) : s \in {t \in shorter : Len(t) = n - 1}, x \in S}

\* type Message: the fields SendToDingtalk reads, and version.
ZeroMessage ==
  [version |-> "", groupKey |-> "", status |-> "", groupLabels |-> EmptyMap,
   commonLabels |-> EmptyMap, alerts |-> <<>>]

Msg(gk, st, gl, cl, as) ==
  [version |-> "4", groupKey |-> gk, status |-> st, groupLabels |-> gl,
   commonLabels |-> cl, alerts |-> as]

(* ------------------------------ SendToDingtalk ------------------------- *)

NoError == "nil"

ErrAlertTypeNull == "alert type is null"
ErrInvalidAlertType == "invalid alert type"

\* The errors.New texts of the missing-key returns.
MissingFieldErrors ==
  {"alert type is null",
   "event_type is null in commonLabels",
   "resource kind is null in groupLabels",
   "component name is null in groupLabels",
   "node name name is null in groupLabels",
   "cpu threshold name is null in commonLabels",
   "mem threshold name is null in commonLabels",
   "pod name name is null in groupLabels",
   "restart times is null in commonLabels",
   "restart interval is null in commonLabels",
   "workload name is null in groupLabels",
   "available percentage is null in commonLabels",
   "alert name is null in commonLabels"}

\* A group key read from the message's groupKey.
GroupKeyFromMessage(m) == m.groupKey

\* groupKey := alertMessage.CommonLabels["group_id"]
GroupKeyOf(m) == Get(m.commonLabels, "group_id")

\* The Sprintf of line 59: a banner line and the group line.
Header(m) ==
  << <<"## HCaaS alert">>,
     <<"### alert group: ", GroupKeyOf(m), " (status: ", m.status, ")">> >>

\* Markdown.Title
Title(m) == <<"HCaaS alert group: ", GroupKeyOf(m), " (status: ", m.status, ")">>

\* The pod and workload names: namespace + name when the namespace key is there.
Qualified(gl, nsKey, nameKey) ==
  IF Has(gl, nsKey) THEN <<gl[nsKey], Get(gl, nameKey)>> ELSE <<Get(gl, nameKey)>>

\* A systemService description that shows the key it checked.
ComponentChecked(m) == Get(m.groupLabels, "component_name")

\* The value the systemService description shows.
ComponentShown(m) == Get(m.groupLabels, "event_type")

\* case "event"
CaseEvent(cl, gl) ==
  IF ~Has(cl, "event_type") THEN "event_type is null in commonLabels"
  ELSE IF ~Has(gl, "resource_kind") THEN "resource kind is null in groupLabels"
  ELSE NoError

\* case "systemService"
CaseSystemService(cl, gl) ==
  IF ~Has(gl, "component_name") THEN "component name is null in groupLabels"
  ELSE NoError

\* case "nodeHealthy"
CaseNodeHealthy(cl, gl) ==
  IF ~Has(gl, "node_name") THEN "node name name is null in groupLabels"
  ELSE NoError

\* case "nodeCPU"
CaseNodeCPU(cl, gl) ==
  IF ~Has(gl, "node_name") THEN "node name name is null in groupLabels"
  ELSE IF ~Has(cl, "cpu_threshold") THEN "cpu threshold name is null in commonLabels"
  ELSE NoError

\* case "nodeMemory"
CaseNodeMemory(cl, gl) ==
  IF ~Has(gl, "node_name") THEN "node name name is null in groupLabels"
  ELSE IF ~Has(cl, "mem_threshold") THEN "mem threshold name is null in commonLabels"
  ELSE NoError

\* case "podNotScheduled" and case "podNotRunning"
CasePod(cl, gl) ==
  IF ~Has(gl, "pod_name") THEN "pod name name is null in groupLabels"
  ELSE NoError

\* A podRestarts case that forgets to look for restart_interval.
CasePodRestartsUnchecked(cl, gl) ==
  IF ~Has(gl, "pod_name") THEN "pod name name is null in groupLabels"
  ELSE IF ~Has(cl, "restart_times") THEN "restart times is null in commonLabels"
  ELSE NoError

\* case "podRestarts"
CasePodRestarts(cl, gl) ==
  IF ~Has(gl, "pod_name") THEN "pod name name is null in groupLabels"
  ELSE IF ~Has(cl, "restart_times") THEN "restart times is null in commonLabels"
  ELSE IF ~Has(cl, "restart_interval") THEN "restart interval is null in commonLabels"
  ELSE NoError

\* case "workload"
CaseWorkload(cl, gl) ==
  IF ~Has(gl, "workload_name") THEN "workload name is null in groupLabels"
  ELSE IF ~Has(cl, "available_percentage") THEN "available percentage is null in commonLabels"
  ELSE NoError

\* case "metric"
CaseMetric(cl, gl) ==
  IF ~Has(cl, "alert_name") THEN "alert name is null in commonLabels"
  ELSE NoError

\* A default case that returns the error of the first check.
CaseDefaultAsNull == ErrAlertTypeNull

\* default
CaseDefault == ErrInvalidAlertType

\* The check for alert_type and the switch on it: the error returned, or NoError.
Validate(m) ==
  LET cl == m.commonLabels
      gl == m.groupLabels
      ty == Get(cl, "alert_type")
  IN  IF ~Has(cl, "alert_type") THEN ErrAlertTypeNull
      ELSE CASE ty = "event" -> CaseEvent(cl, gl)
             [] ty = "systemService" -> CaseSystemService(cl, gl)
             [] ty = "nodeHealthy" -> CaseNodeHealthy(cl, gl)
             [] ty = "nodeCPU" -> CaseNodeCPU(cl, gl)
             [] ty = "nodeMemory" -> CaseNodeMemory(cl, gl)
             [] ty = "podNotScheduled" -> CasePod(cl, gl)
             [] ty = "podNotRunning" -> CasePod(cl, gl)
             [] ty = "podRestarts" -> CasePodRestarts(cl, gl)
             [] ty = "workload" -> CaseWorkload(cl, gl)
             [] ty = "metric" -> CaseMetric(cl, gl)
             [] OTHER -> CaseDefault

\* The description line of a message that passed Validate.
Description(m) ==
  LET cl == m.commonLabels
      gl == m.groupLabels
      ty == Get(cl, "alert_type")
  IN  CASE ty = "event" ->
             <<"> ", Get(cl, "event_type"), " event of ", Get(gl, "resource_kind"), " occuored">>
        [] ty = "systemService" ->
             <<"> The system component ", ComponentShown(m), " is not running">>
        [] ty = "nodeHealthy" ->
             <<"> The kubelet on the node ", Get(gl, "node_name"), " is not healthy">>
        [] ty = "nodeCPU" ->
             <<"> The CPU usage on the node ", Get(gl, "node_name"), " is over ",
               Get(cl, "cpu_threshold"), "%">>
        [] ty = "nodeMemory" ->
             <<"> The memory usage on the node ", Get(gl, "node_name"), " is over ",
               Get(cl, "mem_threshold"), "%">>
        [] ty = "podNotScheduled" ->
             <<"> The Pod ">> \o Qualified(gl, "namespace", "pod_name") \o <<" is not scheduled">>
        [] ty = "podNotRunning" ->
             <<"> The Pod ">> \o Qualified(gl, "namespace", "pod_name") \o <<" is not running">>
        [] ty = "podRestarts" ->
             <<"> The Pod ">> \o Qualified(gl, "namespace", "pod_name")
               \o <<" restarts ", Get(cl, "restart_times"), " times in ",
                    Get(cl, "restart_interval"), " sec">>
        [] ty = "workload" ->
             <<"> The workload ">> \o Qualified(gl, "workload_namespace", "workload_name")
               \o <<" has available replicas less than ", Get(cl, "available_percentage"), "%">>
        [] ty = "metric" ->
             <<"> The metric ", Get(cl, "alert_name"), " crossed the threshold">>

\* A loop that skips only the resolved alerts.
IsNotResolved(a) == a.status # "resolved"

\* alert.Status != "firing" skips the alert.
IsFiring(a) == a.status = "firing"

Separator == <<"-----">>

LabelLine(k, v) == <<"- ", k, " : ", v>>

\* time.Time.Format(layout), layout "Jan 2, 2006 at 3:04pm (MST)".
Format(t) ==
  CASE t = 0 -> "Jan 1, 0001 at 12:00am (UTC)"
    [] t = 1 -> "Nov 5, 2026 at 9:30am (UTC)"
    [] OTHER -> "Nov 6, 2026 at 9:30am (UTC)"

StartLine(a) == <<"- starts at: ", Format(a.startsAt)>>

\* The orders in which `range alert.Labels` may visit the keys: any.
RECURSIVE Orders(_)
Orders(ks) ==
  IF ks = {} THEN {<<>>}
  ELSE UNION {{<<k>> \o o : o \in Orders(ks \ {k})} : k \in ks}

\* The lines one firing alert adds, for each order of its labels.
Blocks(a) ==
  {<<Separator>> \o [i \in 1..Len(o) |-> LabelLine(o[i], a.labels[o[i]])] \o <<StartLine(a)>> :
     o \in Orders(DOMAIN a.labels)}

\* The lines the loop over alertMessage.Alerts adds.
RECURSIVE Details(_)
Details(as) ==
  IF as = <<>> THEN {<<>>}
  ELSE IF ~IsFiring(Head(as)) THEN Details(Tail(as))
  ELSE {b \o d : b \in Blocks(Head(as)), d \in Details(Tail(as))}

\* The texts `message` may hold after the loop.
Renderings(m) == {Header(m) \o <<Description(m)>> \o d : d \in Details(m.alerts)}

\* dingtalkText, as json.Marshal writes it.
Envelope(m, text, atMobiles, isAtAll) ==
  [msgtype |-> "markdown",
   at |-> [atMobiles |-> atMobiles, isAtAll |-> isAtAll],
   markdown |-> [title |-> Title(m), text |-> text]]

(* ------------------------------ the inbound request -------------------- *)

\* A request body as encoding/json sees it: text that is not JSON at all, or a
\* JSON object `doc` some of whose members hold a value of the wrong JSON type
\* (a number where the struct has a string, a string where it has a map).
TypedFields == {"version", "status", "commonLabels"}

Body(ok, bad, doc) == [syntaxOk |-> ok, mistyped |-> bad, doc |-> doc]

\* A decoder that stores the members it read before the text stopped being JSON.
UnmarshalKeepingPrefix(b) ==
  [msg |-> [f \in DOMAIN b.doc |->
              IF f \in b.mistyped THEN ZeroMessage[f] ELSE b.doc[f]],
   err |-> ~b.syntaxOk \/ b.mistyped # {}]

\* json.Unmarshal(body, &alertMessage) on a zero Message.  Invalid JSON stores
\* nothing.  A member of the wrong type is skipped, the rest is decoded, and the
\* first such mismatch is the error returned.
Unmarshal(b) ==
  IF ~b.syntaxOk THEN [msg |-> ZeroMessage, err |-> TRUE]
  ELSE [msg |-> [f \in DOMAIN b.doc |->
                   IF f \in b.mistyped THEN ZeroMessage[f] ELSE b.doc[f]],
        err |-> b.mistyped # {}]

\* req.Form after ParseForm: the parameters present, each with its values.
FormParams == {"webhook", "isatall", "atmobiles"}

GoodURL == "https://oapi.dingtalk.com/robot/send?access_token=t"
BadURL == "://oapi.dingtalk.com"

FormValues(p) ==
  CASE p = "webhook" -> {<<GoodURL>>, <<BadURL>>}
    [] p = "isatall" -> {<<"true">>, <<"notabool">>}
    [] p = "atmobiles" -> {<<"13800000000", "13900000000">>}

Forms ==
  UNION {{f \in [ps -> UNION {FormValues(p) : p \in ps}] :
            \A p \in ps : f[p] \in FormValues(p)} : ps \in SUBSET FormParams}

\* req.Form["atmobiles"]: nil when the parameter is absent.
ValuesOf(form, p) == IF p \in DOMAIN form THEN form[p] ELSE <<>>

\* strconv.ParseBool, its error dropped: false for anything not a true literal.
ParseBool(s) == s \in {"1", "t", "T", "TRUE", "true", "True"}

\* http.NewRequest parses the webhook with url.Parse.
UrlParses(u) == u # BadURL

Request(readErr, body, formErr, form) ==
  [readErr |-> readErr, body |-> body, formErr |-> formErr, form |-> form]

DefaultForm ==
  [p \in {"webhook", "isatall"} |-> IF p = "webhook" THEN <<GoodURL>> ELSE <<"true">>]

(* ------------------------------ the inputs ----------------------------- *)

\* The choices of alert_type: absent (""), each recognized value, another value.
TypeChoices == AlertTypes \cup {"", "bogus"}

KeyChoices ==
  {ks \in (SUBSET CommonKeys) \X (SUBSET GroupKeys) :
     Cardinality(ks[1]) + Cardinality(ks[2]) <= MaxLabels}

\* Messages over every choice of labels.
LabelMessages ==
  {Msg("gk1", "firing", GroupMap(ks[2]), CommonMap(ty, ks[1]), <<>>) :
     ty \in TypeChoices, ks \in KeyChoices}

\* Messages over every choice of alerts, group key and status.
AlertMessages ==
  {Msg(gk, st, EmptyMap, CommonMap("metric", cs), as) :
     gk \in {"gk1", "gk2"}, st \in {"firing", "resolved"},
     cs \in {{"alert_name"}, {"alert_name", "group_id"}},
     as \in SeqsUpTo(Alerts, MaxAlerts)}

OneFiring == <<[status |-> "firing", labels |-> EmptyMap, startsAt |-> 1]>>

FewMessages ==
  {Msg(gk, "firing", GroupMap({"component_name"}), CommonMap(ty, cs), OneFiring) :
     gk \in {"gk1", "gk2"}, ty \in {"", "metric", "systemService", "bogus"},
     cs \in {{}, {"alert_name"}}}

DecodeBodies ==
  {Body(ok, bad, doc) :
     ok \in BOOLEAN, bad \in {{}} \cup {{f} : f \in TypedFields}, doc \in FewMessages}

\* The requests of the one-request specification.
RichRequests ==
  {Request(FALSE, Body(TRUE, {}, m), FALSE, DefaultForm) :
     m \in LabelMessages \cup AlertMessages}
  \cup {Request(FALSE, b, FALSE, DefaultForm) : b \in DecodeBodies}
  \cup {Request(re, Body(ok, {}, Msg("gk1", "firing", EmptyMap,
                                      CommonMap("metric", {"alert_name"}), OneFiring)),
                fe, form) :
          re \in BOOLEAN, ok \in BOOLEAN, fe \in BOOLEAN, form \in Forms}

\* The requests of the concurrent specification.
SmallRequests ==
  {Request(FALSE, Body(TRUE, {}, Msg(gk, "firing", EmptyMap, CommonMap("metric", cs), OneFiring)),
           FALSE, DefaultForm) :
     gk \in {"gk1", "gk2"}, cs \in {{"alert_name"}, {"alert_name", "group_id"}, {}}}
  \cup {Request(k = "read", Body(k # "json", {}, Msg("gk1", "resolved", EmptyMap,
                                                   CommonMap("metric", {"alert_name"}), <<>>)),
                k = "form",
                IF k = "webhook" THEN [p \in {"isatall"} |-> <<"true">>]
                ELSE IF k = "url" THEN [p \in {"webhook", "isatall"} |->
                                          IF p = "webhook" THEN <<BadURL>> ELSE <<"notabool">>]
                ELSE DefaultForm) :
          k \in {"read", "json", "form", "webhook", "url"}}

(* ------------------------------ state ---------------------------------- *)

VARIABLES
  pc,          \* where each request's handler is
  req,         \* the request each handler was started with
  msg,         \* alertMessage of each handler
  args,        \* webhook, atmobiles, isatall of each handler
  calls,       \* how often each handler has called SendToDingtalk
  err,         \* what SendToDingtalk returned to each handler
  outbound,    \* the POSTs issued to the webhook for each request
  dest,        \* how the webhook answered each request's POST
  resp,        \* what each handler wrote to its ResponseWriter
  logFlags,    \* the flags of the log package's standard logger
  flagsWriter, \* the request whose handler set them last (0: nobody yet)
  logged       \* for each request, the flags and their writer at each log call

vars ==
  <<pc, req, msg, args, calls, err, outbound, dest, resp, logFlags, flagsWriter, logged>>

\* log.LstdFlags (Ldate | Ltime) and log.Lshortfile.
LstdFlags == 3
Lshortfile == 16

\* log.SetFlags(log.LstdFlags | log.Lshortfile)
HandlerFlags == LstdFlags + Lshortfile

StatusOK == 200
StatusInternalServerError == 500
\* The status codes the webhook answers with.
DestStatuses == {StatusOK, 503}

SuccessText == "Alert sent successfully"
ErrRead == "unexpected EOF"
ErrParseForm == "invalid URL escape"
ErrNewRequest == "parse: missing protocol scheme"
ErrTransport == "Post: dial tcp: connection refused"

NoRequest == Request(FALSE, Body(FALSE, {}, ZeroMessage), FALSE, EmptyMap)
NoArgs == [webhook |-> "", atMobiles |-> <<>>, isAtAll |-> FALSE]
NoAnswer == [kind |-> "none", status |-> 0]

\* Nothing written: net/http answers 200 with an empty body when the handler returns.
NoResponse == [status |-> 0, body |-> <<>>]

\* w.WriteHeader(http.StatusInternalServerError); fmt.Fprint(w, err)
Failure(e) == [status |-> StatusInternalServerError, body |-> <<e>>]

\* fmt.Fprint(w, "Alert sent successfully"): the first write sends status 200.
Success == [status |-> StatusOK, body |-> <<SuccessText>>]

\* The status the client sees.
FinalStatus(r) == IF resp[r].status = 0 THEN StatusOK ELSE resp[r].status

Init ==
  /\ pc = [r \in Reqs |-> "idle"]
  /\ req = [r \in Reqs |-> NoRequest]
  /\ msg = [r \in Reqs |-> ZeroMessage]
  /\ args = [r \in Reqs |-> NoArgs]
  /\ calls = [r \in Reqs |-> 0]
  /\ err = [r \in Reqs |-> NoError]
  /\ outbound = [r \in Reqs |-> <<>>]
  /\ dest = [r \in Reqs |-> NoAnswer]
  /\ resp = [r \in Reqs |-> NoResponse]
  /\ logFlags = LstdFlags
  /\ flagsWriter = 0
  /\ logged = [r \in Reqs |-> {}]

(* ------------------------------ ReceiveAndSend ------------------------- *)

\* A log.Print or log.Printf of request r's goroutine reads the logger's flags.
Log(r) ==
  logged' = [logged EXCEPT ![r] = @ \cup {[flags |-> logFlags, writer |-> flagsWriter]}]

\* An alertMessage kept in one package-level variable.
MsgShared(r) == msg[1]

\* The Message a handler passes to SendToDingtalk: its own local alertMessage.
MsgOf(r) == msg[r]

\* A request arrives and its goroutine runs log.SetFlags.
Begin(r, inputs) ==
  /\ pc[r] = "idle"
  /\ \E q \in inputs : req' = [req EXCEPT ![r] = q]
  /\ logFlags' = HandlerFlags
  /\ flagsWriter' = r
  /\ pc' = [pc EXCEPT ![r] = "started"]
  /\ UNCHANGED <<msg, args, calls, err, outbound, dest, resp, logged>>

\* ioutil.ReadAll fails: 500 with the error, logged.
ReadFail(r) ==
  /\ pc[r] = "started"
  /\ req[r].readErr
  /\ resp' = [resp EXCEPT ![r] = Failure(ErrRead)]
  /\ Log(r)
  /\ pc' = [pc EXCEPT ![r] = "done"]
  /\ UNCHANGED <<req, msg, args, calls, err, outbound, dest, logFlags, flagsWriter>>

\* The body is decoded, its error dropped; req.ParseForm fails: 500 with the error.
ParseFormFail(r) ==
  /\ pc[r] = "started"
  /\ ~req[r].readErr
  /\ req[r].formErr
  /\ msg' = [msg EXCEPT ![r] = Unmarshal(req[r].body).msg]
  /\ resp' = [resp EXCEPT ![r] = Failure(ErrParseForm)]
  /\ pc' = [pc EXCEPT ![r] = "done"]
  /\ UNCHANGED <<req, args, calls, err, outbound, dest, logFlags, flagsWriter, logged>>

\* A handler that answers a missing parameter with an error.
MissingParamRejected(r) ==
  /\ pc[r] = "started"
  /\ ~req[r].readErr
  /\ ~req[r].formErr
  /\ \/ "webhook" \notin DOMAIN req[r].form
     \/ "isatall" \notin DOMAIN req[r].form
  /\ msg' = [msg EXCEPT ![r] = Unmarshal(req[r].body).msg]
  /\ resp' = [resp EXCEPT ![r] = Failure("url argument is null")]
  /\ Log(r)
  /\ pc' = [pc EXCEPT ![r] = "done"]
  /\ UNCHANGED <<req, args, calls, err, outbound, dest, logFlags, flagsWriter>>

\* webhook or isatall is not in req.Form: logged, and the handler returns.
MissingParam(r) ==
  /\ pc[r] = "started"
  /\ ~req[r].readErr
  /\ ~req[r].formErr
  /\ \/ "webhook" \notin DOMAIN req[r].form
     \/ "isatall" \notin DOMAIN req[r].form
  /\ msg' = [msg EXCEPT ![r] = Unmarshal(req[r].body).msg]
  /\ Log(r)
  /\ pc' = [pc EXCEPT ![r] = "done"]
  /\ UNCHANGED <<req, args, calls, err, outbound, dest, resp, logFlags, flagsWriter>>

\* Both are there: the handler is about to call SendToDingtalk.
Accept(r) ==
  /\ pc[r] = "started"
  /\ ~req[r].readErr
  /\ ~req[r].formErr
  /\ "webhook" \in DOMAIN req[r].form
  /\ "isatall" \in DOMAIN req[r].form
  /\ msg' = [msg EXCEPT ![r] = Unmarshal(req[r].body).msg]
  /\ args' = [args EXCEPT ![r] =
                [webhook |-> req[r].form["webhook"][1],
                 atMobiles |-> ValuesOf(req[r].form, "atmobiles"),
                 isAtAll |-> ParseBool(req[r].form["isatall"][1])]]
  /\ pc' = [pc EXCEPT ![r] = "send"]
  /\ UNCHANGED <<req, calls, err, outbound, dest, resp, logFlags, flagsWriter, logged>>

\* SendToDingtalk returns a validation error: 500 with the error, logged.
SendInvalid(r) ==
  /\ pc[r] = "send"
  /\ Validate(MsgOf(r)) # NoError
  /\ calls' = [calls EXCEPT ![r] = @ + 1]
  /\ err' = [err EXCEPT ![r] = Validate(MsgOf(r))]
  /\ resp' = [resp EXCEPT ![r] = Failure(Validate(MsgOf(r)))]
  /\ Log(r)
  /\ pc' = [pc EXCEPT ![r] = "done"]
  /\ UNCHANGED <<req, msg, args, outbound, dest, logFlags, flagsWriter>>

\* http.NewRequest cannot parse the webhook: 500 with the error, logged.
SendBadURL(r) ==
  /\ pc[r] = "send"
  /\ Validate(MsgOf(r)) = NoError
  /\ ~UrlParses(args[r].webhook)
  /\ calls' = [calls EXCEPT ![r] = @ + 1]
  /\ err' = [err EXCEPT ![r] = ErrNewRequest]
  /\ resp' = [resp EXCEPT ![r] = Failure(ErrNewRequest)]
  /\ Log(r)
  /\ pc' = [pc EXCEPT ![r] = "done"]
  /\ UNCHANGED <<req, msg, args, outbound, dest, logFlags, flagsWriter>>

\* The message is rendered and client.Do sends the POST.
SendPost(r) ==
  /\ pc[r] = "send"
  /\ Validate(MsgOf(r)) = NoError
  /\ UrlParses(args[r].webhook)
  /\ calls' = [calls EXCEPT ![r] = @ + 1]
  /\ \E text \in Renderings(MsgOf(r)) :
       outbound' = [outbound EXCEPT ![r] =
                      Append(@, [url |-> args[r].webhook,
                                 contentType |-> "application/json",
                                 body |-> Envelope(MsgOf(r), text, args[r].atMobiles,
                                                   args[r].isAtAll)])]
  /\ pc' = [pc EXCEPT ![r] = "posting"]
  /\ UNCHANGED <<req, msg, args, err, dest, resp, logFlags, flagsWriter, logged>>

\* A client.Do error answered by sending the POST again.
PostFailRetry(r) ==
  /\ pc[r] = "posting"
  /\ dest' = [dest EXCEPT ![r] = [kind |-> "error", status |-> 0]]
  /\ pc' = [pc EXCEPT ![r] = "send"]
  /\ UNCHANGED <<req, msg, args, calls, err, outbound, resp, logFlags, flagsWriter, logged>>

\* client.Do returns an error: SendToDingtalk returns it, 500 with the error, logged.
PostFail(r) ==
  /\ pc[r] = "posting"
  /\ dest' = [dest EXCEPT ![r] = [kind |-> "error", status |-> 0]]
  /\ err' = [err EXCEPT ![r] = ErrTransport]
  /\ resp' = [resp EXCEPT ![r] = Failure(ErrTransport)]
  /\ Log(r)
  /\ pc' = [pc EXCEPT ![r] = "done"]
  /\ UNCHANGED <<req, msg, args, calls, outbound, logFlags, flagsWriter>>

\* A SendToDingtalk that fails on a status other than 200.
OnResponseStrict(code) == IF code # StatusOK THEN "unexpected status" ELSE NoError

\* What SendToDingtalk returns once a response with status code arrived.
OnResponse(code) == NoError

\* A response arrives: logged, SendToDingtalk returns, the handler answers.
PostResponse(r) ==
  /\ pc[r] = "posting"
  /\ \E code \in DestStatuses :
       /\ dest' = [dest EXCEPT ![r] = [kind |-> "response", status |-> code]]
       /\ err' = [err EXCEPT ![r] = OnResponse(code)]
       /\ resp' = [resp EXCEPT ![r] =
                     IF OnResponse(code) = NoError THEN Success
                     ELSE Failure(OnResponse(code))]
  /\ Log(r)
  /\ pc' = [pc EXCEPT ![r] = "done"]
  /\ UNCHANGED <<req, msg, args, calls, outbound, logFlags, flagsWriter>>

(* ------------------------------ specifications ------------------------- *)

\* net/http runs every request's handler in a goroutine of its own.
Next ==
  \E r \in Reqs :
    \/ Begin(r, SmallRequests)
    \/ ReadFail(r)
    \/ ParseFormFail(r)
    \/ MissingParam(r)
    \/ Accept(r)
    \/ SendInvalid(r)
    \/ SendBadURL(r)
    \/ SendPost(r)
    \/ PostFail(r)
    \/ PostResponse(r)

Spec == Init /\ [][Next]_vars

\* One request, over the larger set of inputs.
NextOne ==
  \/ Begin(1, RichRequests)
  \/ ReadFail(1)
  \/ ParseFormFail(1)
  \/ MissingParam(1)
  \/ Accept(1)
  \/ SendInvalid(1)
  \/ SendBadURL(1)
  \/ SendPost(1)
  \/ PostFail(1)
  \/ PostResponse(1)

SpecOne == Init /\ [][NextOne]_vars

(* ------------------------------ properties ----------------------------- *)

\* The keys each recognized alert_type requires, in commonLabels and in groupLabels.
RequiredCommon(ty) ==
  CASE ty = "event" -> {"event_type"}
    [] ty = "nodeCPU" -> {"cpu_threshold"}
    [] ty = "nodeMemory" -> {"mem_threshold"}
    [] ty = "podRestarts" -> {"restart_times", "restart_interval"}
    [] ty = "workload" -> {"available_percentage"}
    [] ty = "metric" -> {"alert_name"}
    [] OTHER -> {}

RequiredGroup(ty) ==
  CASE ty = "event" -> {"resource_kind"}
    [] ty = "systemService" -> {"component_name"}
    [] ty \in {"nodeHealthy", "nodeCPU", "nodeMemory"} -> {"node_name"}
    [] ty \in {"podNotScheduled", "podNotRunning", "podRestarts"} -> {"pod_name"}
    [] ty = "workload" -> {"workload_name"}
    [] OTHER -> {}

\* Message m has no alert_type, or a recognized one and lacks a key it requires.
LacksRequired(m) ==
  \/ ~Has(m.commonLabels, "alert_type")
  \/ /\ m.commonLabels["alert_type"] \in AlertTypes
     /\ \/ \E k \in RequiredCommon(m.commonLabels["alert_type"]) : ~Has(m.commonLabels, k)
        \/ \E k \in RequiredGroup(m.commonLabels["alert_type"]) : ~Has(m.groupLabels, k)

\* Request r's handler has called SendToDingtalk and it has returned.
Returned(r) == pc[r] = "done" /\ calls[r] > 0

\* C1: when the message has no alert_type, or has a recognized alert_type and
\* lacks one of the keys that type requires, SendToDingtalk returns a
\* missing-field error and no POST is made for the request.
C1_MissingFieldNoPost ==
  \A r \in Reqs :
    (pc[r] \in {"send", "posting", "done"} /\ LacksRequired(msg[r])) =>
      /\ outbound[r] = <<>>
      /\ pc[r] # "posting"
      /\ Returned(r) => err[r] \in MissingFieldErrors

C1_Witness ==
  /\ Returned(1)
  /\ Get(msg[1].commonLabels, "alert_type") = "podRestarts"
  /\ DOMAIN msg[1].commonLabels = {"alert_type", "restart_times"}
  /\ Has(msg[1].groupLabels, "pod_name")
  /\ err[1] = "restart interval is null in commonLabels"
  /\ outbound[1] = <<>>

\* C2: when alert_type is present with a value that is not recognized,
\* SendToDingtalk returns the invalid-alert-type error, which is none of the
\* missing-field errors, whatever other labels there are, and no POST is made.
C2_UnrecognizedNoPost ==
  \A r \in Reqs :
    (/\ pc[r] \in {"send", "posting", "done"}
     /\ Has(msg[r].commonLabels, "alert_type")
     /\ msg[r].commonLabels["alert_type"] \notin AlertTypes) =>
      /\ outbound[r] = <<>>
      /\ pc[r] # "posting"
      /\ Returned(r) => /\ err[r] = "invalid alert type"
                        /\ err[r] \notin MissingFieldErrors

C2_Witness ==
  /\ Returned(1)
  /\ Get(msg[1].commonLabels, "alert_type") = "bogus"
  /\ Has(msg[1].commonLabels, "alert_name")
  /\ Has(msg[1].groupLabels, "pod_name")
  /\ err[1] = "invalid alert type"
  /\ outbound[1] = <<>>

\* C3: once the POST was sent and a response arrived, whatever its status code,
\* SendToDingtalk returns no error and the handler answers 200 with the body
\* "Alert sent successfully"; it never answers 500.
C3_AnyStatusIsSuccess ==
  \A r \in Reqs :
    dest[r].kind = "response" =>
      /\ pc[r] = "done"
      /\ Len(outbound[r]) = 1
      /\ err[r] = NoError
      /\ resp[r] = [status |-> 200, body |-> <<"Alert sent successfully">>]

C3_Witness ==
  /\ dest[1] = [kind |-> "response", status |-> 503]
  /\ resp[1] = [status |-> 200, body |-> <<"Alert sent successfully">>]

\* The request of r's handler lacks webhook or isatall.
LacksParam(r) ==
  \/ "webhook" \notin DOMAIN req[r].form
  \/ "isatall" \notin DOMAIN req[r].form

\* C4 as claimed: a request without webhook or without isatall ends with no call
\* of SendToDingtalk, no POST, and nothing written to the response.
C4_AsClaimed ==
  \A r \in Reqs :
    (pc[r] = "done" /\ LacksParam(r)) =>
      /\ calls[r] = 0
      /\ outbound[r] = <<>>
      /\ resp[r] = NoResponse

\* C4: a request without webhook or without isatall ends with no call of
\* SendToDingtalk and no POST; when its body was read and its form parsed
\* without error nothing is written to the response (the client sees 200 and
\* an empty body), and otherwise the response is 500 with the error.
C4_MissingParamSilent ==
  \A r \in Reqs :
    (pc[r] # "idle" /\ LacksParam(r)) =>
      /\ calls[r] = 0
      /\ outbound[r] = <<>>
      /\ pc[r] \in {"started", "done"}
      /\ pc[r] = "done" =>
           IF req[r].readErr THEN resp[r] = [status |-> 500, body |-> <<ErrRead>>]
           ELSE IF req[r].formErr THEN resp[r] = [status |-> 500, body |-> <<ErrParseForm>>]
           ELSE resp[r] = [status |-> 0, body |-> <<>>] /\ FinalStatus(r) = 200

C4_Witness ==
  /\ pc[1] = "done"
  /\ "webhook" \notin DOMAIN req[1].form
  /\ "isatall" \in DOMAIN req[1].form
  /\ ~req[1].readErr /\ ~req[1].formErr
  /\ Validate(msg[1]) = NoError
  /\ resp[1] = NoResponse
  /\ calls[1] = 0

\* The body of r's request fails to decode, and webhook and isatall are there.
DecodeFailed(r) ==
  /\ pc[r] # "idle"
  /\ ~req[r].readErr /\ ~req[r].formErr /\ ~LacksParam(r)
  /\ Unmarshal(req[r].body).err

TextOf(r) == outbound[r][1].body.markdown.text

TitleOf(r) == outbound[r][1].body.markdown.title

\* The lines after the banner, the group line and the description.
DetailOf(r) == SubSeq(TextOf(r), 4, Len(TextOf(r)))

FiringOf(m) == SelectSeq(m.alerts, LAMBDA a : a.status = "firing")

SeparatorsIn(d) == {i \in 1..Len(d) : d[i] = <<"-----">>}

\* Where the i-th block of d starts and ends.
BlockStart(d, i) ==
  CHOOSE p \in SeparatorsIn(d) : Cardinality({q \in SeparatorsIn(d) : q <= p}) = i

BlockEnd(d, i) ==
  IF i = Cardinality(SeparatorsIn(d)) THEN Len(d) ELSE BlockStart(d, i + 1) - 1

\* The i-th block of d is the block of alert a: a separator line, one line for
\* each label of a, and the line of a's start time.
BlockIs(d, i, a) ==
  LET first == BlockStart(d, i)
      last == BlockEnd(d, i)
  IN  /\ last - first - 1 = Cardinality(DOMAIN a.labels)
      /\ {d[j] : j \in (first + 1)..(last - 1)} =
           {<<"- ", k, " : ", a.labels[k]>> : k \in DOMAIN a.labels}
      /\ d[last] = <<"- starts at: ", Format(a.startsAt)>>

\* C6: in the text of a POST, the detail blocks are exactly the blocks of the
\* alerts whose own status is "firing", one each, in the order of the alerts;
\* an alert of any other status adds nothing, whatever the message's status.
C6_BlocksAreFiringAlerts ==
  \A r \in Reqs :
    outbound[r] # <<>> =>
      LET d == DetailOf(r)
          firing == FiringOf(msg[r])
      IN  /\ Cardinality(SeparatorsIn(d)) = Len(firing)
          /\ (d # <<>>) => 1 \in SeparatorsIn(d)
          /\ \A i \in 1..Len(firing) : BlockIs(d, i, firing[i])

C6_Witness ==
  /\ outbound[1] # <<>>
  /\ msg[1].status = "resolved"
  /\ Len(msg[1].alerts) = 2
  /\ msg[1].alerts[1].status = ""
  /\ msg[1].alerts[1].labels # EmptyMap
  /\ msg[1].alerts[2].status = "firing"
  /\ msg[1].alerts[2].labels # EmptyMap
  /\ Len(DetailOf(1)) = 4

\* Messages that differ in groupKey and in nothing else.
DifferOnlyInGroupKey(m, n) ==
  /\ m.groupKey # n.groupKey
  /\ [m EXCEPT !.groupKey = n.groupKey] = n

\* C7 as claimed: the titles of two messages that differ only in groupKey differ.
C7_AsClaimed ==
  \A r, t \in Reqs :
    (outbound[r] # <<>> /\ outbound[t] # <<>> /\ DifferOnlyInGroupKey(msg[r], msg[t])) =>
      TitleOf(r) # TitleOf(t)

\* C7: the title and the group line of the text are built from the value of
\* commonLabels["group_id"] (empty when the key is absent) and the message's
\* status; the message's groupKey is not used, so two messages that differ only
\* in groupKey get the same title.
C7_TitleFromGroupId ==
  /\ \A r \in Reqs :
       outbound[r] # <<>> =>
         /\ TitleOf(r) = <<"HCaaS alert group: ", Get(msg[r].commonLabels, "group_id"),
                           " (status: ", msg[r].status, ")">>
         /\ TextOf(r)[2] = <<"### alert group: ", Get(msg[r].commonLabels, "group_id"),
                             " (status: ", msg[r].status, ")">>
  /\ \A r, t \in Reqs :
       (outbound[r] # <<>> /\ outbound[t] # <<>> /\ DifferOnlyInGroupKey(msg[r], msg[t])) =>
         TitleOf(r) = TitleOf(t)

C7_Witness ==
  /\ outbound[1] # <<>> /\ outbound[2] # <<>>
  /\ DifferOnlyInGroupKey(msg[1], msg[2])
  /\ Has(msg[1].commonLabels, "group_id")
  /\ TitleOf(1) = TitleOf(2)
  /\ TitleOf(1)[2] = msg[1].commonLabels["group_id"]

\* C8: for alert_type systemService only groupLabels.component_name has to be
\* there, and the component the description names is the value of the key
\* event_type of groupLabels, empty when that key is absent.
C8_SystemServiceShowsEventType ==
  \A r \in Reqs :
    (/\ pc[r] \in {"send", "posting", "done"}
     /\ Get(msg[r].commonLabels, "alert_type") = "systemService") =>
      /\ (Returned(r) /\ err[r] \in MissingFieldErrors) => ~Has(msg[r].groupLabels, "component_name")
      /\ outbound[r] # <<>> =>
           /\ Has(msg[r].groupLabels, "component_name")
           /\ TextOf(r)[3] = <<"> The system component ", Get(msg[r].groupLabels, "event_type"),
                               " is not running">>

C8_Witness ==
  /\ outbound[1] # <<>>
  /\ Get(msg[1].commonLabels, "alert_type") = "systemService"
  /\ msg[1].groupLabels = [k \in {"component_name"} |-> "etcd"]
  /\ TextOf(1)[3] = <<"> The system component ", "", " is not running">>

\* C9: a request causes at most one POST; when that POST cannot be sent, or the
\* request cannot be built from the webhook, SendToDingtalk is not called again
\* and the handler answers 500 with the error.
C9_SingleAttempt ==
  \A r \in Reqs :
    /\ Len(outbound[r]) <= 1
    /\ calls[r] <= 1
    /\ dest[r].kind = "error" =>
         /\ pc[r] = "done"
         /\ Len(outbound[r]) = 1
         /\ err[r] = ErrTransport
         /\ resp[r] = [status |-> 500, body |-> <<ErrTransport>>]
    /\ (Returned(r) /\ Validate(msg[r]) = NoError /\ args[r].webhook = BadURL) =>
         /\ outbound[r] = <<>>
         /\ err[r] = ErrNewRequest
         /\ resp[r] = [status |-> 500, body |-> <<ErrNewRequest>>]

C9_Witness ==
  /\ pc[1] = "done"
  /\ dest[1].kind = "error"
  /\ Len(outbound[1]) = 1
  /\ resp[1].status = 500

\* What request q brings about when its handler runs alone and the webhook
\* answers with d: the POSTs it may make and the response it writes.
AloneMessage(q) == Unmarshal(q.body).msg

AloneAccepted(q) ==
  ~q.readErr /\ ~q.formErr /\ "webhook" \in DOMAIN q.form /\ "isatall" \in DOMAIN q.form

AlonePosts(q) ==
  IF AloneAccepted(q) /\ Validate(AloneMessage(q)) = NoError /\ q.form["webhook"][1] # BadURL
  THEN {<<[url |-> q.form["webhook"][1],
           contentType |-> "application/json",
           body |-> Envelope(AloneMessage(q), text, ValuesOf(q.form, "atmobiles"),
                             ParseBool(q.form["isatall"][1]))]>> :
          text \in Renderings(AloneMessage(q))}
  ELSE {<<>>}

AloneResponse(q, d) ==
  IF q.readErr THEN Failure(ErrRead)
  ELSE IF q.formErr THEN Failure(ErrParseForm)
  ELSE IF ~AloneAccepted(q) THEN NoResponse
  ELSE IF Validate(AloneMessage(q)) # NoError THEN Failure(Validate(AloneMessage(q)))
  ELSE IF q.form["webhook"][1] = BadURL THEN Failure(ErrNewRequest)
  ELSE IF d.kind = "error" THEN Failure(ErrTransport)
  ELSE Success

\* Each finished request ended as it would have ended alone.
AsIfAlone ==
  \A r \in Reqs :
    pc[r] = "done" =>
      /\ outbound[r] \in AlonePosts(req[r])
      /\ resp[r] = AloneResponse(req[r], dest[r])

\* C10 as claimed: each request ends as if it ran alone, and no handler reads
\* state that the handler of another request wrote.
C10_AsClaimed ==
  /\ AsIfAlone
  /\ \A r \in Reqs : \A l \in logged[r] : l.writer = r

\* C10: under every interleaving each request's POST and response are what they
\* are when the request runs alone.  The one piece of state a handler writes and
\* another reads is the flags of the standard logger: every handler sets them to
\* LstdFlags | Lshortfile before it logs, so each log call reads that value,
\* whichever handler wrote it last.
C10_IndependentRequests ==
  /\ AsIfAlone
  /\ \A r \in Reqs : \A l \in logged[r] : l.flags = 19 /\ l.writer \in Reqs

C10_Witness ==
  /\ pc[1] = "done" /\ pc[2] = "done"
  /\ outbound[1] # <<>> /\ outbound[2] # <<>>
  /\ msg[1] # msg[2]
  /\ resp[1] # resp[2]
  /\ \E l \in logged[1] : l.writer = 2

====
